---- MODULE Spec2Model ----
(***************************************************************************)
(* Model of src/src/components/ui/nested-sheet.tsx: the NestedSheetsProvider *)
(* registry (openSheets, maxLevel, hasNestedSheetOpen, registerSheet,        *)
(* unregisterSheet, the deep-nesting warning effect), useNestedSheetContext,  *)
(* the NestedSheet register/unregister effect and the geometry of            *)
(* NestedSheetContent (buildTransform, positioningStyle), whose scale is     *)
(* computed in the arithmetic of JavaScript numbers.                         *)
(*                                                                           *)
(* React is modelled by its observable cycle: event handlers set owner       *)
(* state, a render applies the queued state updaters and commits the props,  *)
(* the passive-effect phase then runs every cleanup followed by every        *)
(* effect, and the updaters those queue are applied by the next render.      *)
(***************************************************************************)
EXTENDS Integers, Sequences, FiniteSets, TLC

\* Number of NestedSheet nodes in the declaration tree.
NumNodes == 3
\* Most registerSheet/unregisterSheet calls a context consumer queues
\* before the provider renders again (RegistrySpec only).
MaxBatch == 2

\* Program constants; the decimal literals SCALE_STEP and MIN_SCALE are
\* written in hundredths.
SCALE_STEP == 5
MIN_SCALE == 50
OFFSET_MULTIPLIER == 16
BOTTOM_OFFSET_BASE == 8
MAX_SAFE_NESTING_LEVEL == 10

VARIABLES
    openSheets,  \* provider state: Map<id, level> as of the last render
    pending,     \* setOpenSheets updaters queued since the last render
    phase,       \* "idle" | "effects" (passive effects of the last render due)
    openState,   \* the owner's useNestedSheet state for the node's open prop
    life,        \* "new" | "mounted" | "dropped" | "unmounted"
    openProp,    \* the open prop the node was last rendered with
    effOpen,     \* open in the deps of the node's last effect run
    cleanup,     \* the node's last effect run returned a cleanup
    rapid,       \* history: the node last toggled true,false,true in one
                 \* batch, and how far that batch has been processed:
                 \* "batched", "rendered", "done" (its effects have run),
                 \* "applied" (the updaters they queued are applied)
    lastCall,    \* history: last registry call issued for the node's id
    protocolOk,  \* history: the calls for the node's id alternated so far
    warnDep,     \* maxLevel in the deps of the provider's last warning
                 \* effect run: <<>> before the first run, else <<maxLevel>>
    warned,      \* console.warn calls of the last passive-effect phase, each
                 \* recorded by the level it reports
    geo,         \* the last render of a NestedSheetContent given its props
                 \* directly: <<>> or <<[props and resulting style]>>
    orphan,      \* the last render of a NestedSheet with no provider above
                 \* it: <<>> or <<[what the render did]>>
    sideProp,    \* the provider's side prop: <<>> when not given, else
                 \* <<"left">> or <<"right">>
    nodeSide     \* the side the node was last rendered with: context.side
                 \* as it read it and the side prop it gave its content,
                 \* both "none" while the node is not rendered

vars == <<openSheets, pending, phase, openState, life, openProp, effOpen,
          cleanup, rapid, lastCall, protocolOk, warnDep, warned, geo, orphan,
          sideProp, nodeSide>>

sideVars == <<sideProp, nodeSide>>

warnVars == <<warnDep, warned>>

standaloneVars == <<geo, orphan>>

nodeVars == <<openState, life, openProp, effOpen, cleanup, rapid, lastCall,
              protocolOk>>

\* ------------------------------------------------------------------ tree

Nodes == 1..NumNodes

\* The declaration tree: node 1 is declared directly under the provider
\* (parent 0); nodes 2 and 3 are declared inside node 1, nodes 4 and 5
\* inside node 2, as the NestedSheet elements of App are nested.
Parent(n) == n \div 2

\* Mutant: a NestedSheet hands its own level on to its children unchanged.
Level_SameAsParent(n) == 0

RECURSIVE Level(_)
\* context.level as seen by node n: the provider's value has level 0 and
\* each NestedSheet provides level + 1 to its children.
Level(n) == IF Parent(n) = 0 THEN 0 ELSE Level(Parent(n)) + 1

\* side as the provider's render binds it: the prop, "right" by default.
ProviderSide == IF sideProp = <<>> THEN "right" ELSE sideProp[1]

\* Mutant: nextContext built without the side it was given, so that nodes
\* below the first level read the default.
SideSeen_DefaultBelowRoot(n) ==
    IF Parent(n) = 0 THEN ProviderSide ELSE "right"

RECURSIVE SideSeen(_)
\* context.side as seen by node n: the provider's value has its side and
\* each NestedSheet hands the side of its context on in nextContext.
SideSeen(n) == IF Parent(n) = 0 THEN ProviderSide ELSE SideSeen(Parent(n))

\* The side prop node n injects into its NestedSheetContent child.
ContentSide(n) == SideSeen(n)

NoSide == [context |-> "none", content |-> "none"]

RECURSIVE IsAncestor(_, _)
IsAncestor(a, n) ==
    IF Parent(n) = 0 THEN FALSE
    ELSE Parent(n) = a \/ IsAncestor(a, Parent(n))

Levels == {Level(n) : n \in Nodes}

\* -------------------------------------------------------------- registry

EmptyMap == [x \in {} |-> 0]

Max2(a, b) == IF a >= b THEN a ELSE b

RECURSIVE MathMax(_)
\* Math.max(...values) over a non-empty array.
MathMax(s) == IF Len(s) = 1 THEN s[1] ELSE Max2(s[1], MathMax(Tail(s)))

RECURSIVE MapValues(_)
\* Array.from(map.values())
MapValues(m) ==
    IF DOMAIN m = {} THEN <<>>
    ELSE LET k == CHOOSE x \in DOMAIN m : \A y \in DOMAIN m : x <= y
         IN <<m[k]>> \o MapValues([x \in DOMAIN m \ {k} |-> m[x]])

\* Mutant: the deepest level taken to be the level of the map's last entry.
MaxLevelOf_Last(m) ==
    IF Cardinality(DOMAIN m) = 0 THEN 0
    ELSE MapValues(m)[Len(MapValues(m))]

\* Mutant: the deepest level taken to be the number of open sheets less one.
MaxLevelOf_BySize(m) ==
    IF Cardinality(DOMAIN m) = 0 THEN 0 ELSE Cardinality(DOMAIN m) - 1

\* maxLevel: 0 for an empty map, otherwise Math.max of the values.
MaxLevelOf(m) == IF Cardinality(DOMAIN m) = 0 THEN 0 ELSE MathMax(MapValues(m))

maxLevel == MaxLevelOf(openSheets)

\* Mutant: level >= currentLevel, so that an equal level counts as deeper.
HasNestedSheetOpenIn_Ge(m, id) ==
    IF id \notin DOMAIN m THEN FALSE
    ELSE LET currentLevel == m[id]
             values == MapValues(m)
         IN \E i \in 1..Len(values) : values[i] >= currentLevel

\* hasNestedSheetOpen(id) evaluated on map m.
HasNestedSheetOpenIn(m, id) ==
    IF id \notin DOMAIN m THEN FALSE
    ELSE LET currentLevel == m[id]
             values == MapValues(m)
         IN \E i \in 1..Len(values) : values[i] > currentLevel

hasNestedSheetOpen(id) == HasNestedSheetOpenIn(openSheets, id)

\* process.env.NODE_ENV of the build: the model is of a development build.
NODE_ENV == "development"

\* Mutant: the warning given from the threshold itself on.
WarnEffect_AtThreshold(maxLvl) ==
    IF NODE_ENV # "production" /\ maxLvl >= MAX_SAFE_NESTING_LEVEL
    THEN <<maxLvl>> ELSE <<>>

\* The body of the provider's deep-nesting effect: the console.warn calls
\* it makes, each recorded by the level its message reports.
WarnEffect(maxLvl) ==
    IF NODE_ENV # "production" /\ maxLvl > MAX_SAFE_NESTING_LEVEL
    THEN <<maxLvl>> ELSE <<>>

\* The deps of that effect are [maxLevel]: it runs after the first render
\* and after every render in which maxLevel differs from its last run.
WarnDepsChanged == warnDep # <<maxLevel>>

\* Mutant: next built as an empty Map instead of a copy of prev.
RegisterUpdater_FromEmpty(prev, id, level) == [x \in {id} |-> level]

\* Mutant: an id already in the map keeps its entry (insert without set).
RegisterUpdater_InsertOnly(prev, id, level) ==
    [x \in DOMAIN prev \cup {id} |->
        IF x \in DOMAIN prev THEN prev[x] ELSE level]

\* The updater registerSheet passes to setOpenSheets.
RegisterUpdater(prev, id, level) ==
    [x \in DOMAIN prev \cup {id} |-> IF x = id THEN level ELSE prev[x]]

\* Mutant: closing a sheet also drops every entry deeper than it, and an
\* absent id drops the deepest entries (a stack-like unregister).
UnregisterUpdater_Cascade(prev, id) ==
    LET cut == IF id \in DOMAIN prev THEN prev[id] ELSE MaxLevelOf(prev)
        keep == {x \in DOMAIN prev \ {id} : prev[x] < cut}
    IN [x \in keep |-> prev[x]]

\* The updater unregisterSheet passes to setOpenSheets.
UnregisterUpdater(prev, id) == [x \in DOMAIN prev \ {id} |-> prev[x]]

\* registerSheet(id, level): queues its updater.
registerSheet(id, level) == [op |-> "register", id |-> id, level |-> level]

\* unregisterSheet(id): queues its updater.
unregisterSheet(id) == [op |-> "unregister", id |-> id, level |-> 0]

ApplyUpdater(prev, u) ==
    IF u.op = "register" THEN RegisterUpdater(prev, u.id, u.level)
    ELSE UnregisterUpdater(prev, u.id)

\* Mutant: every call computes the next map from the rendered map instead
\* of from the map the call before it left, so the last call alone counts.
ApplyAll_Stale(queue, prev) ==
    IF queue = <<>> THEN prev
    ELSE ApplyUpdater(prev, queue[Len(queue)])

RECURSIVE ApplyAll(_, _)
\* React applies the queued updaters in the order they were queued.
ApplyAll(queue, prev) ==
    IF queue = <<>> THEN prev
    ELSE ApplyAll(Tail(queue), ApplyUpdater(prev, Head(queue)))

\* ----------------------------------------------------------- NestedSheet

\* NestedSheetContext is created with the default null; a context is <<>>
\* for null and <<value>> for a provided value.
NullContext == <<>>

\* Mutant: a missing provider replaced by a default context value.
useNestedSheetContext_Default(context) ==
    IF context = <<>>
    THEN [threw |-> FALSE, context |-> <<[level |-> 0, side |-> "right"]>>]
    ELSE [threw |-> FALSE, context |-> context]

\* useNestedSheetContext: throws when the context is null, otherwise
\* returns it.
useNestedSheetContext(context) ==
    IF context = <<>> THEN [threw |-> TRUE, context |-> <<>>]
    ELSE [threw |-> FALSE, context |-> context]

\* The id useId gives a NestedSheet rendered outside the provider's tree.
OrphanId == 0

\* The Sheet primitive renders the children it is given whether or not it
\* is open: NestedSheet nodes declared inside a closed sheet stay mounted.
SheetRendersChildren(open) == TRUE

RECURSIVE Rendered(_)
\* Whether the next render mounts (or keeps mounted) node n: the application
\* still renders it and its parent renders its children.
Rendered(n) ==
    /\ life[n] \in {"new", "mounted"}
    /\ \/ Parent(n) = 0
       \/ /\ Rendered(Parent(n))
          /\ SheetRendersChildren(openState[Parent(n)])

\* Mutant: open left out of the deps, so the effect runs on mount only.
DepsChanged_NoOpen(n) == effOpen[n] = "none"

\* The effect's deps are [open, id, level, registerSheet, unregisterSheet];
\* id, level and the two callbacks are stable for a mounted node.
DepsChanged(n) ==
    \/ effOpen[n] = "none"
    \/ (effOpen[n] = "open") # openProp[n]

\* Mutant: the effect also unregisters on its else branch.
EffectCalls_ElseUnregister(open, id, level) ==
    IF open THEN <<registerSheet(id, level)>> ELSE <<unregisterSheet(id)>>

\* Mutant: the sheet registers at the number of sheets open when it opens.
EffectCalls_ArrivalOrder(open, id, level) ==
    IF open THEN <<registerSheet(id, Cardinality(DOMAIN openSheets))>>
    ELSE <<>>

\* Calls made by the effect body.
EffectCalls(open, id, level) ==
    IF open THEN <<registerSheet(id, level)>> ELSE <<>>

\* Mutant: the effect returns no cleanup.
EffectReturnsCleanup_Never(open) == FALSE

\* Whether the effect body returns a cleanup.
EffectReturnsCleanup(open) == open

\* Mutant: the cleanup does not unregister.
CleanupCalls_None(id) == <<>>

\* Calls made by the cleanup the effect returned.
CleanupCalls(id) == <<unregisterSheet(id)>>

\* Calls of node n's cleanup in this passive-effect phase.
NodeCleanup(n) ==
    IF cleanup[n] /\ (life[n] = "unmounted" \/ DepsChanged(n))
    THEN CleanupCalls(n) ELSE <<>>

\* Calls of node n's effect body in this passive-effect phase.
NodeEffect(n) ==
    IF life[n] = "mounted" /\ DepsChanged(n)
    THEN EffectCalls(openProp[n], n, Level(n)) ELSE <<>>

RECURSIVE AllCleanups(_)
\* React runs the cleanups of a commit children first.
AllCleanups(n) == IF n = 0 THEN <<>> ELSE NodeCleanup(n) \o AllCleanups(n - 1)

RECURSIVE AllEffects(_)
AllEffects(n) == IF n = 0 THEN <<>> ELSE NodeEffect(n) \o AllEffects(n - 1)

RECURSIVE LogCalls(_, _)
\* History of the calls issued for one id: the last call, and whether every
\* register followed none/unregister and every unregister a register.
LogCalls(calls, h) ==
    IF calls = <<>> THEN h
    ELSE LET c == Head(calls).op
             fine == IF c = "register" THEN h.last # "register"
                     ELSE h.last = "register"
         IN LogCalls(Tail(calls), [last |-> c, ok |-> h.ok /\ fine])

NodeHistory(n) ==
    LogCalls(NodeCleanup(n) \o NodeEffect(n),
             [last |-> lastCall[n], ok |-> protocolOk[n]])

\* ----------------------------------------------------- number arithmetic

\* A JavaScript number is an IEEE-754 double.  The numbers of the scale
\* computation are all multiples of 2^-UnitExp (the unit in the last place
\* of 0.05), so a number is the record [neg, mag]: its sign, and its
\* magnitude in units of 2^-UnitExp held as three limbs of LimbBits bits,
\* least significant first.  Every operation computes the exact result and
\* rounds it to MantissaBits significant bits, ties to even.
MantissaBits == 53
UnitExp == 57
LimbBits == 24

LimbBase == 2^LimbBits

\* Carries the excess of the two low limbs upwards.
BigNorm(x) ==
    LET t == x[2] + x[1] \div LimbBase
    IN <<x[1] % LimbBase, t % LimbBase, x[3] + t \div LimbBase>>

BigAdd(x, y) == BigNorm(<<x[1] + y[1], x[2] + y[2], x[3] + y[3]>>)

BigLess(x, y) ==
    \/ x[3] < y[3]
    \/ x[3] = y[3] /\ x[2] < y[2]
    \/ x[3] = y[3] /\ x[2] = y[2] /\ x[1] < y[1]

\* x - y for x >= y.
BigSub(x, y) ==
    LET b1 == IF x[1] < y[1] THEN 1 ELSE 0
        b2 == IF x[2] - b1 < y[2] THEN 1 ELSE 0
    IN <<x[1] - y[1] + b1 * LimbBase,
         x[2] - b1 - y[2] + b2 * LimbBase,
         x[3] - b2 - y[3]>>

\* x * k for 0 <= k < 2^(31 - LimbBits).
BigMulSmall(x, k) == BigNorm(<<x[1] * k, x[2] * k, x[3] * k>>)

\* Quotient and remainder of x by d, 0 < d < 2^(31 - LimbBits).
BigDivSmall(x, d) ==
    LET t2 == (x[3] % d) * LimbBase + x[2]
        t1 == (t2 % d) * LimbBase + x[1]
    IN [quot |-> <<t1 \div d, t2 \div d, x[3] \div d>>, rem |-> t1 % d]

BigZero == <<0, 0, 0>>

RECURSIVE UlpOf(_)
\* The unit in the last place, in units of 2^-UnitExp, of a magnitude with
\* top limb `top`: 1 while the magnitude has at most MantissaBits bits.
UlpOf(top) ==
    IF top < 2^(MantissaBits - 2 * LimbBits) THEN 1
    ELSE 2 * UlpOf(top \div 2)

\* The double nearest to the magnitude x + rem/den (ties to even).
RoundNearestEven(x, rem, den) ==
    LET u == UlpOf(x[3])
        r == x[1] % u
        odd == (x[1] \div u) % 2 = 1
        twice == 2 * (r * den + rem)
    IN IF twice > u * den \/ (twice = u * den /\ odd)
       THEN BigNorm(<<x[1] - r + u, x[2], x[3]>>)
       ELSE <<x[1] - r, x[2], x[3]>>

\* The number a decimal literal of h hundredths denotes (0.05, 0.5, 1):
\* the double nearest to h/100, for h = 0 and for h >= 4 (a smaller
\* literal has a finer unit in the last place than 2^-UnitExp).
NumberOfHundredths(h) ==
    LET d == BigDivSmall(<<0, 0, h * 2^(UnitExp - 2 * LimbBits)>>, 100)
    IN [neg |-> FALSE, mag |-> RoundNearestEven(d.quot, d.rem, 100)]

NumSigned(neg, mag) == [neg |-> neg /\ mag # BigZero, mag |-> mag]

\* k * x for an integer k and a number x >= 0.
NumMulInt(k, x) ==
    NumSigned(k < 0,
              RoundNearestEven(BigMulSmall(x.mag, IF k < 0 THEN -k ELSE k),
                               0, 1))

\* x - y.
NumSub(x, y) ==
    IF x.neg # y.neg
    THEN NumSigned(x.neg, RoundNearestEven(BigAdd(x.mag, y.mag), 0, 1))
    ELSE IF BigLess(x.mag, y.mag)
    THEN NumSigned(~x.neg, RoundNearestEven(BigSub(y.mag, x.mag), 0, 1))
    ELSE NumSigned(x.neg, RoundNearestEven(BigSub(x.mag, y.mag), 0, 1))

\* x < y.
NumLess(x, y) ==
    IF x.neg # y.neg THEN x.neg
    ELSE IF x.neg THEN BigLess(y.mag, x.mag) ELSE BigLess(x.mag, y.mag)

\* Math.max(x, y) of two numbers.
NumMax(x, y) == IF NumLess(x, y) THEN y ELSE x

\* -------------------------------------------------------------- geometry

\* Mutant: the scale floored at 0 instead of MIN_SCALE.
scaleAmount_FloorAtZero(nestingLevel, maxLvl) ==
    NumMax(NumberOfHundredths(0),
           NumSub(NumberOfHundredths(100),
                  NumMulInt(maxLvl - nestingLevel,
                            NumberOfHundredths(SCALE_STEP))))

\* Mutant: the scale without its floor.
scaleAmount_NoFloor(nestingLevel, maxLvl) ==
    NumSub(NumberOfHundredths(100),
           NumMulInt(maxLvl - nestingLevel, NumberOfHundredths(SCALE_STEP)))

\* scaleAmount = Math.max(MIN_SCALE, 1 - (maxLevel - nestingLevel) *
\* SCALE_STEP), in the arithmetic of JavaScript numbers.
scaleAmount(nestingLevel, maxLvl) ==
    NumMax(NumberOfHundredths(MIN_SCALE),
           NumSub(NumberOfHundredths(100),
                  NumMulInt(maxLvl - nestingLevel,
                            NumberOfHundredths(SCALE_STEP))))

\* Mutant: the scale taken from the sheet's own level.
buildTransform_OwnLevel(nestingLevel, maxLvl, offset) ==
    (IF NumLess(scaleAmount(0, nestingLevel), NumberOfHundredths(100))
     THEN <<[fn |-> "scaleX", scale |-> scaleAmount(0, nestingLevel)]>>
     ELSE <<>>)
    \o (IF nestingLevel > 0
        THEN <<[fn |-> "translateY", px |-> offset]>> ELSE <<>>)

\* Mutant: the scale pushed whenever it is at most 1.
buildTransform_EmitAtOne(nestingLevel, maxLvl, offset) ==
    (IF ~NumLess(NumberOfHundredths(100), scaleAmount(nestingLevel, maxLvl))
     THEN <<[fn |-> "scaleX", scale |-> scaleAmount(nestingLevel, maxLvl)]>>
     ELSE <<>>)
    \o (IF nestingLevel > 0
        THEN <<[fn |-> "translateY", px |-> offset]>> ELSE <<>>)

\* buildTransform: the transforms joined into the transform string, in
\* order; the empty sequence stands for undefined.  A scaleX carries the
\* number it prints, a translateY its offset in px.
buildTransform(nestingLevel, maxLvl, offset) ==
    (IF NumLess(scaleAmount(nestingLevel, maxLvl), NumberOfHundredths(100))
     THEN <<[fn |-> "scaleX", scale |-> scaleAmount(nestingLevel, maxLvl)]>>
     ELSE <<>>)
    \o (IF nestingLevel > 0
        THEN <<[fn |-> "translateY", px |-> offset]>> ELSE <<>>)

\* Mutant: offset || default, so that an offset of 0 gives the default.
appliedOffset_Or(nestingLevel, offsetProp) ==
    IF offsetProp = <<>> \/ offsetProp = <<0>>
    THEN nestingLevel * OFFSET_MULTIPLIER
    ELSE offsetProp[1]

\* appliedOffset = offset ?? nestingLevel * OFFSET_MULTIPLIER; the offset
\* prop is <<>> when not given and <<v>> when given.
appliedOffset(nestingLevel, offsetProp) ==
    IF offsetProp = <<>> THEN nestingLevel * OFFSET_MULTIPLIER
    ELSE offsetProp[1]

\* Mutant: the bottom field spread whenever the applied offset is positive.
positioningStyle_BottomByOffset(nestingLevel, maxLvl, offsetProp) ==
    LET applied == appliedOffset(nestingLevel, offsetProp)
        transform == buildTransform(nestingLevel, maxLvl, applied)
    IN [hasTransform |-> transform # <<>>,
        transform |-> transform,
        hasBottom |-> applied > 0,
        bottom |-> IF applied > 0 THEN applied + BOTTOM_OFFSET_BASE ELSE 0]

\* positioningStyle of NestedSheetContent for an empty style prop: the
\* transform field is present when buildTransform returned a string and the
\* bottom field (in px) when nestingLevel > 0.
positioningStyle(nestingLevel, maxLvl, offsetProp) ==
    LET applied == appliedOffset(nestingLevel, offsetProp)
        transform == buildTransform(nestingLevel, maxLvl, applied)
    IN [hasTransform |-> transform # <<>>,
        transform |-> transform,
        hasBottom |-> nestingLevel > 0,
        bottom |-> IF nestingLevel > 0 THEN applied + BOTTOM_OFFSET_BASE
                   ELSE 0]

\* The style of node n's content as NestedSheet renders it: nestingLevel
\* is the node's level, maxLevel the provider's, and no offset is given.
ContentStyle(n) == positioningStyle(Level(n), maxLevel, <<>>)

NoRapid == [node |-> 0, stage |-> "none"]

\* ---------------------------------------------------------------- actions

InitRest ==
    /\ openSheets = EmptyMap
    /\ pending = <<>>
    /\ phase = "idle"
    /\ openState = [n \in Nodes |-> FALSE]
    /\ life = [n \in Nodes |-> "new"]
    /\ openProp = [n \in Nodes |-> FALSE]
    /\ effOpen = [n \in Nodes |-> "none"]
    /\ cleanup = [n \in Nodes |-> FALSE]
    /\ rapid = NoRapid
    /\ lastCall = [n \in Nodes |-> "none"]
    /\ protocolOk = [n \in Nodes |-> TRUE]
    /\ warnDep = <<>>
    /\ warned = <<>>
    /\ geo = <<>>
    /\ orphan = <<>>
    /\ nodeSide = [n \in Nodes |-> NoSide]

\* The state before the first render of App, which gives its provider the
\* side "right".
Init == InitRest /\ sideProp = <<"right">>

\* The side props a provider can be given.
SideProps == {<<>>, <<"left">>, <<"right">>}

\* The state before the first render of a provider given any side prop.
SideInit == InitRest /\ sideProp \in SideProps

\* An event handler sets the owner's open state (setIsMainOpen, or the
\* sheet's onOpenChange).
SetOpen(n, v) ==
    /\ phase = "idle"
    /\ life[n] \in {"new", "mounted"}
    /\ v # openState[n]
    /\ openState' = [openState EXCEPT ![n] = v]
    /\ rapid' = IF rapid.node = n /\ rapid.stage = "batched"
                THEN NoRapid ELSE rapid
    /\ UNCHANGED <<openSheets, pending, phase, life, openProp, effOpen,
                   cleanup, lastCall, protocolOk>>
    /\ UNCHANGED <<warnVars, standaloneVars, sideVars>>

\* One event handler sets the owner's open state to true, false and true
\* again: React keeps the last value for the next render.
RapidToggle(n) ==
    /\ phase = "idle"
    /\ life[n] \in {"new", "mounted"}
    /\ openState' = [openState EXCEPT ![n] = TRUE]
    /\ rapid' = [node |-> n, stage |-> "batched"]
    /\ UNCHANGED <<openSheets, pending, phase, life, openProp, effOpen,
                   cleanup, lastCall, protocolOk>>
    /\ UNCHANGED <<warnVars, standaloneVars, sideVars>>

\* The application stops rendering node n (and so its subtree).
HostRemove(n) ==
    /\ phase = "idle"
    /\ life[n] \in {"new", "mounted"}
    /\ life' = [life EXCEPT ![n] = "dropped"]
    /\ rapid' = IF rapid.node = n /\ rapid.stage = "batched"
                THEN NoRapid ELSE rapid
    /\ UNCHANGED <<openSheets, pending, phase, openState, openProp, effOpen,
                   cleanup, lastCall, protocolOk>>
    /\ UNCHANGED <<warnVars, standaloneVars, sideVars>>

\* A render and commit: the provider state takes the queued updaters, every
\* node is rendered with the owner's current open state, removed nodes are
\* unmounted; the passive effects of this commit are then due.  The owner's
\* state of an unmounted node is never read again and is kept as false.
Render ==
    /\ phase = "idle"
    /\ openSheets' = ApplyAll(pending, openSheets)
    /\ pending' = <<>>
    /\ life' = [n \in Nodes |-> IF Rendered(n) THEN "mounted" ELSE "unmounted"]
    /\ openProp' = [n \in Nodes |-> Rendered(n) /\ openState[n]]
    /\ rapid' = IF rapid.stage = "batched" /\ Rendered(rapid.node)
                THEN [rapid EXCEPT !.stage = "rendered"]
                ELSE IF rapid.stage = "done"
                THEN [rapid EXCEPT !.stage = "applied"]
                ELSE NoRapid
    /\ openState' = [n \in Nodes |-> Rendered(n) /\ openState[n]]
    /\ phase' = "effects"
    /\ UNCHANGED <<effOpen, cleanup, lastCall, protocolOk>>
    /\ UNCHANGED <<warnVars, standaloneVars, sideProp>>
    /\ nodeSide' = [n \in Nodes |->
                      IF Rendered(n)
                      THEN [context |-> SideSeen(n), content |-> ContentSide(n)]
                      ELSE NoSide]

\* The passive-effect phase of the last commit: every due cleanup, then
\* every due effect body; the registry calls they make are queued.  The
\* provider's warning effect runs in the same phase when its deps changed.
RunEffects ==
    /\ phase = "effects"
    /\ pending' = pending \o AllCleanups(NumNodes) \o AllEffects(NumNodes)
    /\ effOpen' = [n \in Nodes |->
                     IF life[n] = "mounted"
                     THEN (IF openProp[n] THEN "open" ELSE "closed")
                     ELSE "none"]
    /\ cleanup' = [n \in Nodes |->
                     IF life[n] = "mounted"
                     THEN (IF DepsChanged(n)
                           THEN EffectReturnsCleanup(openProp[n])
                           ELSE cleanup[n])
                     ELSE FALSE]
    /\ rapid' = IF rapid.stage = "rendered"
                THEN [rapid EXCEPT !.stage = "done"] ELSE rapid
    /\ lastCall' = [n \in Nodes |-> NodeHistory(n).last]
    /\ protocolOk' = [n \in Nodes |-> NodeHistory(n).ok]
    /\ warnDep' = <<maxLevel>>
    /\ warned' = IF WarnDepsChanged THEN WarnEffect(maxLevel) ELSE <<>>
    /\ phase' = "idle"
    /\ UNCHANGED <<openSheets, openState, life, openProp>>
    /\ UNCHANGED <<standaloneVars, sideVars>>

Next ==
    \/ \E n \in Nodes, v \in BOOLEAN : SetOpen(n, v)
    \/ \E n \in Nodes : HostRemove(n)
    \/ Render
    \/ RunEffects

Spec == Init /\ [][Next]_vars

RapidNext ==
    \/ Next
    \/ \E n \in Nodes : RapidToggle(n)

\* The same program under a provider given any side prop or none.
SideSpec == SideInit /\ [][Next]_vars

\* The same program with the true,false,true batches of one handler
\* singled out and followed through their render and effects.
RapidSpec == Init /\ [][RapidNext]_vars

\* A context consumer calls registerSheet(id, level) directly.
CallRegister(id, level) ==
    /\ phase = "idle"
    /\ Len(pending) < MaxBatch
    /\ pending' = Append(pending, registerSheet(id, level))
    /\ UNCHANGED <<openSheets, phase>>
    /\ UNCHANGED <<nodeVars, warnVars, standaloneVars, sideVars>>

\* A context consumer calls unregisterSheet(id) directly.
CallUnregister(id) ==
    /\ phase = "idle"
    /\ Len(pending) < MaxBatch
    /\ pending' = Append(pending, unregisterSheet(id))
    /\ UNCHANGED <<openSheets, phase>>
    /\ UNCHANGED <<nodeVars, warnVars, standaloneVars, sideVars>>

RegistryNext ==
    \/ \E id \in Nodes, level \in Levels : CallRegister(id, level)
    \/ \E id \in Nodes : CallUnregister(id)
    \/ Render
    \/ RunEffects

\* The registry driven through its API alone, every node closed.
RegistrySpec == Init /\ [][RegistryNext]_vars

\* Levels at and above MAX_SAFE_NESTING_LEVEL, registered by sheets nested
\* that deep.
DeepSpan == 2

DeepLevels == MAX_SAFE_NESTING_LEVEL .. (MAX_SAFE_NESTING_LEVEL + DeepSpan)

\* A sheet at a deep level registers, and the provider renders before the
\* next call.
DeepRegister(id, level) == pending = <<>> /\ CallRegister(id, level)

DeepUnregister(id) == pending = <<>> /\ CallUnregister(id)

WarnNext ==
    \/ \E id \in Nodes, level \in DeepLevels : DeepRegister(id, level)
    \/ \E id \in Nodes : DeepUnregister(id)
    \/ Render
    \/ RunEffects

\* The registry with sheets around the safe nesting threshold.
WarnSpec == Init /\ [][WarnNext]_vars

\* Largest nestingLevel, largest maxLevel and largest offset given to a
\* NestedSheetContent directly.
MaxGeoNesting == 12
MaxGeoLevel == 100
MaxOffset == 2

OffsetProps == {<<>>} \cup {<<v>> : v \in 0..MaxOffset}

\* A NestedSheetContent is rendered with the given props and an empty style
\* prop.  Its style is a function of the props alone, so the model follows
\* one such render.
RenderContent(nestingLevel, maxLvl, offsetProp) ==
    /\ geo = <<>>
    /\ geo' = <<[nestingLevel |-> nestingLevel,
                 maxLevel |-> maxLvl,
                 offset |-> offsetProp,
                 scaleAmount |-> scaleAmount(nestingLevel, maxLvl),
                 style |-> positioningStyle(nestingLevel, maxLvl,
                                            offsetProp)]>>
    /\ UNCHANGED <<openSheets, pending, phase, nodeVars, warnVars, orphan,
                   sideVars>>

\* A NestedSheet is rendered with no NestedSheetsProvider above it: the
\* render calls useNestedSheetContext, and a render that throws mounts
\* nothing, so its effect never runs.
RenderOrphan(open) ==
    /\ orphan = <<>>
    /\ LET used == useNestedSheetContext(NullContext)
       IN orphan' = <<[open |-> open,
                       threw |-> used.threw,
                       context |-> used.context,
                       calls |-> IF used.threw THEN <<>>
                                 ELSE EffectCalls(open, OrphanId,
                                                  used.context[1].level)]>>
    /\ UNCHANGED <<openSheets, pending, phase, nodeVars, warnVars, geo,
                   sideVars>>

StandaloneNext ==
    \/ /\ geo = <<>>
       /\ \E nestingLevel \in 0..MaxGeoNesting, maxLvl \in 0..MaxGeoLevel,
             offsetProp \in OffsetProps :
               RenderContent(nestingLevel, maxLvl, offsetProp)
    \/ \E open \in BOOLEAN : RenderOrphan(open)

\* The components rendered on their own, outside the provider's tree.
StandaloneSpec == Init /\ [][StandaloneNext]_vars

\* ----------------------------------------------------------------- claims

Mounted(n) == life[n] \in {"mounted", "dropped"}

\* The map the provider holds once the queued updaters are applied.
SettledSheets == ApplyAll(pending, openSheets)

\* No effect and no registry update is outstanding.
Quiescent == phase = "idle" /\ pending = <<>>

\* C1: after any sequence of register and unregister calls, maxLevel is 0
\* for an empty registry and otherwise a registered depth that no
\* registered depth exceeds.
C1_MaxLevelIsDeepest ==
    IF DOMAIN openSheets = {} THEN maxLevel = 0
    ELSE /\ \E k \in DOMAIN openSheets : openSheets[k] = maxLevel
         /\ \A k \in DOMAIN openSheets : openSheets[k] <= maxLevel

\* C1 witness: after registrations and a removal, two ids are registered
\* at different depths, the deeper being the maximum, and one id is absent.
C1_Witness ==
    \E a, b, c \in Nodes :
        /\ {a, b} \subseteq DOMAIN openSheets
        /\ c \notin DOMAIN openSheets
        /\ openSheets[a] < openSheets[b]
        /\ maxLevel = openSheets[b]

\* C2: hasNestedSheetOpen(id) is true exactly when id is registered and
\* some other entry is strictly deeper; an unregistered id and an id whose
\* only companions are at its depth or above it get false.
C2_HasDeeperIffStrictlyDeeper ==
    \A id \in Nodes :
        hasNestedSheetOpen(id) <=>
            /\ id \in DOMAIN openSheets
            /\ \E other \in DOMAIN openSheets \ {id} :
                   openSheets[other] > openSheets[id]

\* C2 witness: two siblings registered at the same depth, neither with a
\* deeper sheet open, below them an entry that has one, and an absent id.
C2_Witness ==
    \E a, b, c \in Nodes :
        /\ a # b
        /\ {a, b, c} \subseteq DOMAIN openSheets
        /\ openSheets[a] = openSheets[b]
        /\ openSheets[c] < openSheets[a]
        /\ ~hasNestedSheetOpen(a) /\ ~hasNestedSheetOpen(b)
        /\ hasNestedSheetOpen(c)

\* Calls issued for node n's id by the passive-effect phase now due.
NodeCalls(n) == NodeCleanup(n) \o NodeEffect(n)

UnregisterFires(n) ==
    /\ phase = "effects" /\ phase' = "idle"
    /\ \E i \in 1..Len(NodeCalls(n)) : NodeCalls(n)[i].op = "unregister"

\* C3: for every node the calls issued for its id alternate register,
\* unregister, register, ... starting with register; an unregister is
\* issued only by a passive-effect phase that finds the node closed or
\* unmounted; and once the effects have run, a registration that has not
\* been unregistered belongs to a node that is open and mounted.
C3_RegisterUnregisterAlternate ==
    /\ [](\A n \in Nodes : protocolOk[n])
    /\ [][\A n \in Nodes :
            UnregisterFires(n) => ~(openProp[n] /\ life[n] = "mounted")]_vars
    /\ [](\A n \in Nodes :
            (phase = "idle" /\ lastCall[n] = "register")
                => (openProp[n] /\ Mounted(n)))

\* C3 witness: one node was unregistered by its unmount, another by being
\* closed while it stays mounted, and a third is registered and open.
C3_Witness ==
    \E n, m, k \in Nodes :
        /\ lastCall[n] = "unregister" /\ life[n] = "unmounted"
        /\ lastCall[m] = "unregister" /\ life[m] = "mounted"
        /\ lastCall[k] = "register" /\ openProp[k]
        /\ \A x \in Nodes : protocolOk[x]

InRegistryIffOpenAndMounted ==
    \A n \in Nodes :
        (n \in DOMAIN openSheets) <=> (openProp[n] /\ Mounted(n))

\* C4 as stated: in every reachable state an id is in the map exactly when
\* its panel is open and its node mounted.
C4_Original == InRegistryIffOpenAndMounted

\* C4 amended: in every state with no effect and no registry update
\* outstanding, an id is in the map exactly when its panel is open and its
\* node mounted.
C4_InRegistryIffOpenWhenQuiescent ==
    Quiescent => InRegistryIffOpenAndMounted

\* C4 witness: a quiescent state with an open registered node, a node that
\* was registered and is closed, and a node that was registered and is
\* unmounted.
C4_Witness ==
    /\ Quiescent
    /\ \E n, m, k \in Nodes :
        /\ n \in DOMAIN openSheets /\ openProp[n] /\ Mounted(n)
        /\ lastCall[m] = "unregister" /\ life[m] = "mounted"
        /\ lastCall[k] = "unregister" /\ life[k] = "unmounted"

\* C5: once the effects of a batch that set a mounted node's open flag
\* true, false, true have run, the provider's map with the queued updaters
\* applied holds the node's id, the id's registration is outstanding and
\* was issued once; after the next render the rendered map holds the id.
C5_RapidToggleLeavesOneRegistration ==
    /\ rapid.stage = "done" =>
          /\ rapid.node \in DOMAIN SettledSheets
          /\ SettledSheets[rapid.node] = Level(rapid.node)
          /\ lastCall[rapid.node] = "register"
          /\ protocolOk[rapid.node]
    /\ rapid.stage = "applied" =>
          /\ rapid.node \in DOMAIN openSheets
          /\ protocolOk[rapid.node]

\* C5 witness: the batch hit a node that was closed before it, its effect
\* queued the registration, and the next render applied it.
C5_Witness ==
    /\ rapid.stage = "applied"
    /\ rapid.node \in DOMAIN openSheets
    /\ Level(rapid.node) > 0
    /\ phase = "effects"
    /\ openProp[rapid.node]

\* C6: once a node is unmounted and its unmount cleanup has run, the
\* provider's map with the queued updaters applied never holds its id
\* again, and with nothing queued the rendered map does not hold it.
C6_NoRegistrationSurvivesUnmount ==
    \A n \in Nodes :
        (life[n] = "unmounted" /\ ~cleanup[n]) =>
            /\ n \notin DOMAIN SettledSheets
            /\ (pending = <<>> /\ phase = "idle") => n \notin DOMAIN openSheets
            /\ lastCall[n] # "register"

\* C6 witness: a node unmounted while open and registered, and a node
\* unmounted while closed, both out of the map, beside a registered node.
C6_Witness ==
    \E n, m, k \in Nodes :
        /\ n # m
        /\ life[n] = "unmounted" /\ ~cleanup[n] /\ lastCall[n] = "unregister"
        /\ life[m] = "unmounted" /\ ~cleanup[m] /\ lastCall[m] = "none"
        /\ k \in DOMAIN openSheets
        /\ Quiescent

\* The map before the last queued updater runs.
BeforeLast == ApplyAll(SubSeq(pending, 1, Len(pending) - 1), openSheets)

LastQueued == pending[Len(pending)]

Flushes == pending # <<>> /\ pending' = <<>>

\* C7: when the render applies a register(id, d) made on a map that holds
\* id, the map keeps the same ids, id's depth is d and the number of
\* entries is unchanged.
C7_RegisterOverwrites ==
    [][(/\ Flushes
        /\ LastQueued.op = "register"
        /\ LastQueued.id \in DOMAIN BeforeLast)
       => /\ DOMAIN openSheets' = DOMAIN BeforeLast
          /\ openSheets'[LastQueued.id] = LastQueued.level
          /\ Cardinality(DOMAIN openSheets')
                = Cardinality(DOMAIN BeforeLast)]_vars

\* C7 witness: register(id, d) is queued on a map that holds id at another
\* depth, beside another entry.
C7_Witness ==
    /\ pending # <<>>
    /\ LastQueued.op = "register"
    /\ LastQueued.id \in DOMAIN BeforeLast
    /\ BeforeLast[LastQueued.id] # LastQueued.level
    /\ Cardinality(DOMAIN BeforeLast) >= 2

\* C8: when the render applies an unregister(id) made on a map that does
\* not hold id, the map, maxLevel and every hasNestedSheetOpen answer are
\* what they were before that call.
C8_UnregisterAbsentIsNoOp ==
    [][(/\ Flushes
        /\ LastQueued.op = "unregister"
        /\ LastQueued.id \notin DOMAIN BeforeLast)
       => /\ openSheets' = BeforeLast
          /\ MaxLevelOf(openSheets') = MaxLevelOf(BeforeLast)
          /\ \A x \in Nodes :
                HasNestedSheetOpenIn(openSheets', x)
                    = HasNestedSheetOpenIn(BeforeLast, x)]_vars

\* C8 witness: unregister(id) is queued on a non-empty map without id.
C8_Witness ==
    /\ pending # <<>>
    /\ LastQueued.op = "unregister"
    /\ LastQueued.id \notin DOMAIN BeforeLast
    /\ Cardinality(DOMAIN BeforeLast) >= 2
    /\ MaxLevelOf(BeforeLast) > 0

\* C9: a step that removes an ancestor's entry from the map while a
\* descendant registered in it stays open and mounted leaves the
\* descendant's entry in the map at its depth.
C9_ParentCloseKeepsChild ==
    [][openSheets' # openSheets => \A a, d \in Nodes :
        (/\ IsAncestor(a, d)
         /\ a \in DOMAIN openSheets /\ a \notin DOMAIN openSheets'
         /\ d \in DOMAIN openSheets
         /\ openProp[d] /\ openProp'[d] /\ life'[d] = "mounted")
        => /\ d \in DOMAIN openSheets'
           /\ openSheets'[d] = openSheets[d]
           /\ openSheets'[d] = Level(d)]_vars

\* C9 witness: the ancestor is mounted, closed and unregistered, its
\* descendant is open and registered at its depth, nothing outstanding.
C9_Witness ==
    /\ Quiescent
    /\ \E a, d \in Nodes :
        /\ IsAncestor(a, d)
        /\ life[a] = "mounted" /\ ~openProp[a]
        /\ lastCall[a] = "unregister" /\ a \notin DOMAIN openSheets
        /\ openProp[d] /\ d \in DOMAIN openSheets
        /\ openSheets[d] = Level(d)

\* Panel A is node 1, declared directly under the provider, and panel B is
\* node 2, declared inside A.
OnlyAandBOpen ==
    /\ Quiescent
    /\ \A n \in Nodes : (openProp[n] /\ Mounted(n)) <=> n \in {1, 2}

\* C10: with exactly A and B open and nothing outstanding the map is
\* {A: 0, B: 1}, maxLevel is 1, hasNestedSheetOpen is true for A and false
\* for B, A's style has the transform scaleX(0.95) alone and no bottom, and
\* B's style has the transform translateY(16px) alone and bottom 24px.
C10_OpenAThenB ==
    OnlyAandBOpen =>
        /\ DOMAIN openSheets = {1, 2}
        /\ openSheets[1] = 0 /\ openSheets[2] = 1
        /\ maxLevel = 1
        /\ hasNestedSheetOpen(1) /\ ~hasNestedSheetOpen(2)
        /\ ContentStyle(1).hasTransform
        /\ ContentStyle(1).transform = <<[fn |-> "scaleX", scale |-> NumberOfHundredths(95)]>>
        /\ ~ContentStyle(1).hasBottom
        /\ ContentStyle(2).hasTransform
        /\ ContentStyle(2).transform = <<[fn |-> "translateY", px |-> 16]>>
        /\ ContentStyle(2).hasBottom /\ ContentStyle(2).bottom = 24

\* C10 witness: A and B are the open panels, both registered by their own
\* effects, nothing outstanding.
C10_Witness ==
    /\ OnlyAandBOpen
    /\ lastCall[1] = "register" /\ lastCall[2] = "register"
    /\ DOMAIN openSheets = {1, 2}

\* Number of NestedSheet nodes enclosing node n in the declaration tree.
TreeDepth(n) == Cardinality({a \in 1..n : IsAncestor(a, n)})

\* C11: every node's level is the number of nodes enclosing it, 0 directly
\* under the provider and its parent's level plus one otherwise, and every
\* registerSheet call a node's effect queues carries that depth.
C11_DepthIsEnclosingCount ==
    /\ \A n \in 1..(4 * NumNodes) :
          /\ Level(n) = TreeDepth(n)
          /\ (Parent(n) = 0 => Level(n) = 0)
          /\ (Parent(n) # 0 => Level(n) = Level(Parent(n)) + 1)
    /\ \A i \in 1..Len(pending) :
          pending[i].op = "register" =>
              pending[i].level = TreeDepth(pending[i].id)

\* C11 witness: node 1 is registered at depth 0 and the effect of node 2,
\* declared inside it, has just queued its registration at depth 1.
C11_Witness ==
    /\ 1 \in DOMAIN openSheets /\ openSheets[1] = 0
    /\ pending = <<registerSheet(2, 1)>>
    /\ lastCall[2] = "register"

\* The difference k = maxLevel - nestingLevel of the standalone render.
GeoK == geo[1].maxLevel - geo[1].nestingLevel

\* The number x is within one unit in its last place of h hundredths.
WithinUlpOfHundredths(x, h) ==
    LET a == BigMulSmall(x.mag, 100)
        b == BigNorm(<<0, 0, h * 2^(UnitExp - 2 * LimbBits)>>)
        d == IF BigLess(a, b) THEN BigSub(b, a) ELSE BigSub(a, b)
    IN ~x.neg /\ d[3] = 0 /\ d[2] = 0 /\ d[1] <= 100 * UlpOf(x.mag[3])

\* C12: for k = maxLevel - nestingLevel >= 0 the scale is the number 1.0
\* for k = 0, 0.55 for k = 9 and 0.5 for every k >= 10 (k = 10 and k = 100
\* among them); for every k it is a number from 0.5 to 1 within one unit in
\* the last place of the real value max(0.5, 1 - 0.05 k), so never negative.
C12_ScaleLaw ==
    (geo # <<>> /\ GeoK >= 0) =>
        /\ (GeoK = 0 => geo[1].scaleAmount = NumberOfHundredths(100))
        /\ (GeoK = 9 => geo[1].scaleAmount = NumberOfHundredths(55))
        /\ (GeoK = 10 => geo[1].scaleAmount = NumberOfHundredths(50))
        /\ (GeoK = 100 => geo[1].scaleAmount = NumberOfHundredths(50))
        /\ (GeoK >= 10 => geo[1].scaleAmount = NumberOfHundredths(50))
        /\ ~geo[1].scaleAmount.neg
        /\ ~NumLess(geo[1].scaleAmount, NumberOfHundredths(50))
        /\ ~NumLess(NumberOfHundredths(100), geo[1].scaleAmount)
        /\ WithinUlpOfHundredths(geo[1].scaleAmount,
                                 IF GeoK >= 10 THEN 50 ELSE 100 - 5 * GeoK)

\* C12 witness: a content rendered nine levels above the deepest open sheet
\* has the scale 0.55.
C12_Witness ==
    /\ geo # <<>>
    /\ GeoK = 9
    /\ geo[1].scaleAmount = NumberOfHundredths(55)

\* The style's transform has a scaleX.
HasScale(style) ==
    \E i \in 1..Len(style.transform) : style.transform[i].fn = "scaleX"

\* The style's transform has a translateY.
HasTranslate(style) ==
    \E i \in 1..Len(style.transform) : style.transform[i].fn = "translateY"

\* C13 as stated: at nestingLevel = maxLevel the scale is exactly 1 and the
\* style has no transform.
C13_Original ==
    (geo # <<>> /\ GeoK = 0) =>
        /\ geo[1].scaleAmount = NumberOfHundredths(100)
        /\ ~geo[1].style.hasTransform

\* C13: at nestingLevel = maxLevel the scale is exactly 1 and the transform
\* has no scaleX; the style has no transform at all at level 0, and above
\* level 0 its transform is the translateY alone.
C13_NoScaleAtDeepest ==
    (geo # <<>> /\ GeoK = 0) =>
        /\ geo[1].scaleAmount = NumberOfHundredths(100)
        /\ ~HasScale(geo[1].style)
        /\ (geo[1].nestingLevel = 0 => ~geo[1].style.hasTransform)
        /\ (geo[1].nestingLevel > 0 =>
               /\ geo[1].style.hasTransform
               /\ Len(geo[1].style.transform) = 1
               /\ geo[1].style.transform[1].fn = "translateY")

\* C13 witness: a content at level 3 with maxLevel 3 has a transform, which
\* is its translateY alone.
C13_Witness ==
    /\ geo # <<>>
    /\ geo[1].nestingLevel = 3 /\ geo[1].maxLevel = 3
    /\ geo[1].style.hasTransform
    /\ ~HasScale(geo[1].style)

\* C14: at nestingLevel 0 the style has neither a translateY nor a bottom
\* field, whatever maxLevel and the offset prop are; at nestingLevel 2 with
\* no offset prop the translateY is 32px and the bottom field 40px.
C14_NoOffsetAtRoot ==
    geo # <<>> =>
        /\ (geo[1].nestingLevel = 0 =>
               ~HasTranslate(geo[1].style) /\ ~geo[1].style.hasBottom)
        /\ ((geo[1].nestingLevel = 2 /\ geo[1].offset = <<>>) =>
               /\ \E i \in 1..Len(geo[1].style.transform) :
                      geo[1].style.transform[i] =
                          [fn |-> "translateY", px |-> 32]
               /\ geo[1].style.hasBottom
               /\ geo[1].style.bottom = 40)

\* C14 witness: a content at level 0 given the offset 2 while a deeper sheet
\* is open has no translateY and no bottom field.
C14_Witness ==
    /\ geo # <<>>
    /\ geo[1].nestingLevel = 0 /\ geo[1].maxLevel = 3
    /\ geo[1].offset = <<2>>
    /\ ~HasTranslate(geo[1].style) /\ ~geo[1].style.hasBottom

\* C15: a NestedSheet rendered with no provider above it throws; it gets no
\* context (no level, no side), queues no registerSheet call and leaves the
\* registry as it was.
C15_OrphanThrows ==
    orphan # <<>> =>
        /\ orphan[1].threw
        /\ orphan[1].context = <<>>
        /\ orphan[1].calls = <<>>
        /\ pending = <<>> /\ openSheets = EmptyMap

\* C15 witness: an open NestedSheet was rendered outside a provider and
\* threw.
C15_Witness ==
    /\ orphan # <<>>
    /\ orphan[1].open
    /\ orphan[1].threw

\* maxLevel as of the warning effect's last run (0 before its first run).
WarnedMaxLevel == IF warnDep = <<>> THEN 0 ELSE warnDep[1]

C17_ScaledIffDeeperOpen ==
    \A n \in Nodes :
        (n \in DOMAIN openSheets /\ life[n] = "mounted" /\ openProp[n]) =>
            (HasScale(ContentStyle(n)) <=> hasNestedSheetOpen(n))

\* C17 witness: nodes 1, 2 and 3 are open and registered; the siblings 2 and
\* 3 at level 1 are unscaled and node 1 is scaled.
C17_Witness ==
    /\ Quiescent
    /\ DOMAIN openSheets = {1, 2, 3}
    /\ \A n \in {1, 2, 3} : life[n] = "mounted" /\ openProp[n]
    /\ HasScale(ContentStyle(1))
    /\ ~HasScale(ContentStyle(2)) /\ ~HasScale(ContentStyle(3))

\* C18: in every reachable state every registered id's depth is the depth of
\* its node in the declaration tree, and no step changes the depth of an id
\* that stays registered.
C18_DepthFixedByTree ==
    /\ [](\A n \in DOMAIN openSheets : openSheets[n] = TreeDepth(n))
    /\ [][\A n \in DOMAIN openSheets \cap DOMAIN openSheets' :
              openSheets'[n] = openSheets[n]]_vars

\* C18 witness: nodes 1, 2 and 3 are all registered, the siblings 2 and 3
\* in whichever order they opened, at the depths 0, 1 and 1.
C18_Witness ==
    /\ Quiescent
    /\ openSheets = (1 :> 0 @@ 2 :> 1 @@ 3 :> 1)
    /\ \A n \in {1, 2, 3} : lastCall[n] = "register"

\* C19: at nestingLevel > 0 the translateY is appliedOffset px and the
\* bottom field appliedOffset + 8 px, appliedOffset being the offset prop
\* when given (0 included) and nestingLevel * 16 otherwise.
C19_OffsetLaw ==
    (geo # <<>> /\ geo[1].nestingLevel > 0) =>
        LET applied == IF geo[1].offset = <<>>
                       THEN geo[1].nestingLevel * 16
                       ELSE geo[1].offset[1]
        IN /\ \E i \in 1..Len(geo[1].style.transform) :
                  geo[1].style.transform[i] =
                      [fn |-> "translateY", px |-> applied]
           /\ geo[1].style.hasBottom
           /\ geo[1].style.bottom = applied + 8

\* C19 witness: a content at level 3 given the offset 0 has translateY(0px)
\* and bottom 8px.
C19_Witness ==
    /\ geo # <<>>
    /\ geo[1].nestingLevel = 3
    /\ geo[1].offset = <<0>>
    /\ HasTranslate(geo[1].style)
    /\ geo[1].style.bottom = 8

\* C20: every scaleX a style carries is a number of at least 0.5 and less
\* than 1, so neither zero nor negative.
C20_EmittedScaleInRange ==
    geo # <<>> =>
        \A i \in 1..Len(geo[1].style.transform) :
            geo[1].style.transform[i].fn = "scaleX" =>
                /\ ~geo[1].style.transform[i].scale.neg
                /\ geo[1].style.transform[i].scale.mag # BigZero
                /\ ~NumLess(geo[1].style.transform[i].scale,
                            NumberOfHundredths(50))
                /\ NumLess(geo[1].style.transform[i].scale,
                           NumberOfHundredths(100))

\* C20 witness: a content a hundred levels above the deepest open sheet
\* carries scaleX(0.5).
C20_Witness ==
    /\ geo # <<>>
    /\ GeoK = 100
    /\ HasScale(geo[1].style)
    /\ geo[1].style.transform[1].scale = NumberOfHundredths(50)

\* C21: every mounted node has been rendered with a side; the side a node
\* read from its context is the side the provider was given ("right" when
\* it was given none) and is the side it gave its content, at every level;
\* no step changes the provider's side or the side of a node that stays
\* rendered.
C21_SideInheritedUnchanged ==
    /\ [](\A n \in Nodes :
              /\ life[n] = "mounted" => nodeSide[n].context # "none"
              /\ nodeSide[n].context # "none" =>
                     /\ nodeSide[n].context =
                            (IF sideProp = <<>> THEN "right" ELSE sideProp[1])
                     /\ nodeSide[n].content = nodeSide[n].context)
    /\ [][/\ sideProp' = sideProp
          /\ \A n \in Nodes :
                 (nodeSide[n].context # "none"
                      /\ nodeSide'[n].context # "none")
                     => nodeSide'[n] = nodeSide[n]]_vars

\* C21 witness: under a provider given the side "left", the nodes at levels
\* 0 and 1 all have that side after sheets were registered and unregistered.
C21_Witness ==
    /\ sideProp = <<"left">>
    /\ Quiescent
    /\ DOMAIN openSheets = {1, 2}
    /\ lastCall[3] = "unregister"
    /\ \A n \in Nodes :
           nodeSide[n] = [context |-> "left", content |-> "left"]

\* C22: for every registered id, hasNestedSheetOpen(id) is true exactly when
\* maxLevel is greater than the depth recorded for id.
C22_QueriesAgree ==
    \A id \in DOMAIN openSheets :
        hasNestedSheetOpen(id) <=> (maxLevel > openSheets[id])

\* C22 witness: the deepest registered id is not the map's last entry; it
\* has no deeper sheet open while a shallower id has.
C22_Witness ==
    \E a, b \in DOMAIN openSheets :
        /\ a < b
        /\ openSheets[a] > openSheets[b]
        /\ openSheets[a] = maxLevel
        /\ ~hasNestedSheetOpen(a)
        /\ hasNestedSheetOpen(b)

\* C23: when the render applies a register(id, d) or an unregister(id),
\* every other id is in the map after the call exactly if it was before it,
\* with the same depth.
C23_OtherEntriesUntouched ==
    [][Flushes =>
          \A x \in Nodes \ {LastQueued.id} :
              /\ x \in DOMAIN openSheets' <=> x \in DOMAIN BeforeLast
              /\ x \in DOMAIN BeforeLast => openSheets'[x] = BeforeLast[x]]_vars

\* C23 witness: a register is queued for an id at a depth it does not have
\* yet, on a map holding two other ids at different depths.
C23_Witness ==
    /\ pending # <<>>
    /\ LastQueued.op = "register"
    /\ (LastQueued.id \in DOMAIN BeforeLast =>
            BeforeLast[LastQueued.id] # LastQueued.level)
    /\ \E x, y \in DOMAIN BeforeLast \ {LastQueued.id} :
           BeforeLast[x] # BeforeLast[y]

RECURSIVE InIssueOrder(_, _)
\* The calls of a batch carried out one after another on the map m.
InIssueOrder(queue, m) ==
    IF queue = <<>> THEN m
    ELSE LET u == Head(queue)
             after == IF u.op = "register"
                      THEN [x \in DOMAIN m \cup {u.id} |->
                               IF x = u.id THEN u.level ELSE m[x]]
                      ELSE [x \in DOMAIN m \ {u.id} |-> m[x]]
         IN InIssueOrder(Tail(queue), after)

\* The calls of a batch made for one id, in issue order.
CallsFor(queue, id) == SelectSeq(queue, LAMBDA u : u.id = id)

\* C24: the render that applies a batch of calls leaves the map that
\* carrying them out one after another in issue order on the prior map
\* gives: an id no call names keeps its entry, and an id some call names is
\* as its last call leaves it.
C24_BatchAppliesInIssueOrder ==
    [][Flushes =>
          /\ openSheets' = InIssueOrder(pending, openSheets)
          /\ \A id \in Nodes :
                LET calls == CallsFor(pending, id)
                IN IF calls = <<>>
                   THEN /\ id \in DOMAIN openSheets' <=> id \in DOMAIN openSheets
                        /\ id \in DOMAIN openSheets =>
                               openSheets'[id] = openSheets[id]
                   ELSE IF calls[Len(calls)].op = "register"
                   THEN /\ id \in DOMAIN openSheets'
                        /\ openSheets'[id] = calls[Len(calls)].level
                   ELSE id \notin DOMAIN openSheets']_vars

\* C24 witness: one passive-effect phase queued the unregister of node 3,
\* which closed, and the register of node 2, which opened, while node 1
\* stays registered.
C24_Witness ==
    /\ phase = "idle"
    /\ pending = <<unregisterSheet(3), registerSheet(2, 1)>>
    /\ openSheets = (1 :> 0 @@ 3 :> 1)

====
